---- MODULE Spec2Model ----
(***************************************************************************)
(* Argument grammar, implicit-client resolution, the lazily initialised    *)
(* MATCHES cache and its accessors (src/src/arg.rs).                       *)
(***************************************************************************)
EXTENDS Integers, Sequences, FiniteSets, TLC

(***************************************************************************)
(* Bounds of the model.                                                    *)
(***************************************************************************)
MaxPos == 2
MaxOpts == 2
NThreads == 2
MaxMeta == 3
MaxVerbose == 3

(***************************************************************************)
(* Tokens of the command line.                                             *)
(***************************************************************************)
NoVal == "<none>"

Modes ==
    {"client", "reexec", "server", "serve-one", "reverse-server",
     "reverse-client", "copy", "guide", "keygen"}

ClientFamily == {"client", "reverse-client"}

ServerFamily == {"reexec", "server", "serve-one", "reverse-server"}

HelpTokens == {"--help"}

VersionTokens == {"--version"}

\* every token of the alphabet that starts with '-'
Dashed == {"-v", "-m", "--fd", "--bogus"} \cup HelpTokens \cup VersionTokens

PosWords == {"somehost", "0.0.0.0"}

OptGroups ==
    {<<"-v">>, <<"-m", "a">>, <<"-m", "b">>, <<"--fd", "3">>,
     <<"--help">>, <<"--version">>, <<"--bogus">>}

SeqsUpTo(S, n) == UNION {[1..k -> S] : k \in 0..n}

RECURSIVE Flatten(_)
Flatten(ss) == IF ss = <<>> THEN <<>> ELSE Head(ss) \o Flatten(Tail(ss))

\* the argument vectors a process may be started with
Argvs ==
    {<<"oxy">> \o m \o p \o Flatten(o) :
        m \in {<<>>} \cup {<<x>> : x \in Modes},
        p \in SeqsUpTo(PosWords, MaxPos),
        o \in SeqsUpTo(OptGroups, MaxOpts)}

\* vectors with up to MaxMeta metacommands, the mode explicit or implicit
MetaArgvs ==
    {<<"oxy">> \o m \o <<"somehost">> \o Flatten(o) :
        m \in {<<>>, <<"client">>},
        o \in SeqsUpTo({<<"-m", "a">>, <<"-m", "b">>, <<"-m", "c">>}, MaxMeta)}

\* vectors with up to MaxVerbose verbosity flags
VerboseArgvs ==
    {<<"oxy">> \o h \o [i \in 1..k |-> "-v"] :
        h \in {<<"server">>, <<"client", "somehost">>, <<"somehost">>,
               <<"copy">>, <<"guide">>},
        k \in 0..MaxVerbose}

StartArgvs == Argvs \cup MetaArgvs \cup VerboseArgvs

(***************************************************************************)
(* The schema of create_app: which mode defines which argument.            *)
(***************************************************************************)
HasArg(mode, name) ==
    CASE name = "metacommand" -> mode \in ClientFamily
      [] name = "command"     -> mode \in ClientFamily
      [] name = "verbose"     -> mode \in ClientFamily \cup ServerFamily \cup {"copy"}
      [] name = "identity"    -> mode \in ClientFamily \cup ServerFamily \cup {"copy"}
      [] name = "port"        -> mode \in ClientFamily \cup ServerFamily
      [] name = "fd"          -> mode = "reexec"
      [] name = "destination" -> mode \in {"client", "reverse-server"}
      [] name = "bind-address" -> mode \in {"serve-one", "reverse-client"}
      [] name = "location"    -> mode = "copy"
      [] OTHER -> FALSE

\* mutant: no argument is marked required(true)
RequiredNone(mode) == {}

\* required(true) arguments of a mode
Required(mode) ==
    CASE mode \in {"client", "reverse-server"} -> {"destination"}
      [] mode = "reexec" -> {"fd"}
      [] OTHER -> {}

\* the positional argument at index n of a mode (NoVal: none)
PositionalAt(mode, n) ==
    CASE mode = "client" /\ n = 1 -> "destination"
      [] mode = "client" /\ n = 2 -> "command"
      [] mode = "reverse-server" /\ n = 1 -> "destination"
      [] mode = "serve-one" /\ n = 1 -> "bind-address"
      [] mode = "reverse-client" /\ n = 1 -> "bind-address"
      [] mode = "reverse-client" /\ n = 2 -> "command"
      [] mode = "copy" -> "location"
      [] OTHER -> NoVal

DefaultPort == "2600"

DefaultBind == "::0"

\* the values matched for one subcommand; NoVal marks an argument without value
EmptySub ==
    [destination |-> NoVal, bind |-> NoVal, command |-> NoVal, fd |-> NoVal,
     identity |-> NoVal, port |-> NoVal, metacommand |-> <<>>,
     location |-> <<>>, verbose |-> 0]

\* an ArgMatches without subcommand (also the content of the unset cache)
NoMatches == [subcommand |-> NoVal, sub |-> EmptySub]

Err(kind) == [ok |-> FALSE, kind |-> kind, matches |-> NoMatches]

Ok(mode, sub) ==
    [ok |-> TRUE, kind |-> "Ok", matches |-> [subcommand |-> mode, sub |-> sub]]

(***************************************************************************)
(* The parse of one argument vector against the schema                     *)
(* (App::get_matches_from_safe on the App built by create_app).            *)
(***************************************************************************)
\* store value v for the argument called name
SetValue(sub, name, v) ==
    CASE name = "destination"  -> [sub EXCEPT !.destination = v]
      [] name = "bind-address" -> [sub EXCEPT !.bind = v]
      [] name = "command"      -> [sub EXCEPT !.command = v]
      [] name = "fd"           -> [sub EXCEPT !.fd = v]
      [] name = "location"     -> [sub EXCEPT !.location = Append(@, v)]
      [] name = "metacommand"  -> [sub EXCEPT !.metacommand = Append(@, v)]
      [] OTHER -> sub

\* the option a dashed token names in a mode (NoVal: unknown argument)
OptionOf(mode, tok) ==
    CASE tok = "-v" /\ HasArg(mode, "verbose")     -> "verbose"
      [] tok = "-m" /\ HasArg(mode, "metacommand") -> "metacommand"
      [] tok = "--fd" /\ HasArg(mode, "fd")        -> "fd"
      [] OTHER -> NoVal

\* .env("OXY_IDENTITY"), then the default_value()s of the mode's arguments
AddEnvAndDefaults(mode, sub, envId) ==
    [sub EXCEPT
        !.identity = IF HasArg(mode, "identity") /\ @ = NoVal THEN envId ELSE @,
        !.port = IF HasArg(mode, "port") /\ @ = NoVal THEN DefaultPort ELSE @,
        !.bind = IF HasArg(mode, "bind-address") /\ @ = NoVal THEN DefaultBind ELSE @]

HasValue(sub, name) ==
    CASE name = "destination" -> sub.destination # NoVal
      [] name = "fd"          -> sub.fd # NoVal
      [] name = "metacommand" -> sub.metacommand # <<>>
      [] OTHER -> TRUE

\* the validation that ends the parse of a subcommand
Validate(mode, st, envId) ==
    LET sub == AddEnvAndDefaults(mode, st.sub, envId) IN
    IF \E n \in Required(mode) : ~HasValue(sub, n)
    THEN Err("MissingRequiredArgument")
    ELSE IF st.occ["fd"] > 1
    THEN Err("UnexpectedMultipleUsage")
    ELSE IF \E n \in {"fd", "metacommand"} : st.occ[n] > 0 /\ ~HasValue(sub, n)
    THEN Err("EmptyValue")
    ELSE Ok(mode, sub)

StartScan == [sub |-> EmptySub, npos |-> 0, occ |-> [n \in {"fd", "metacommand"} |-> 0]]

\* the tokens that follow the subcommand name, left to right
RECURSIVE SubScan(_, _, _, _)
SubScan(mode, toks, st, envId) ==
    IF toks = <<>> THEN Validate(mode, st, envId)
    ELSE
      LET tok == Head(toks)
          rest == Tail(toks)
          opt == OptionOf(mode, tok)
          pos == PositionalAt(mode, st.npos + 1)
      IN
      IF tok \in HelpTokens THEN Err("HelpDisplayed")
      ELSE IF tok \in VersionTokens THEN Err("VersionDisplayed")
      ELSE IF tok \in Dashed THEN
        IF opt = NoVal THEN Err("UnknownArgument")
        ELSE IF opt = "verbose"
        THEN SubScan(mode, rest, [st EXCEPT !.sub.verbose = @ + 1], envId)
        ELSE IF rest = <<>> \/ Head(rest) \in Dashed
        THEN SubScan(mode, rest, [st EXCEPT !.occ[opt] = @ + 1], envId)
        ELSE SubScan(mode, Tail(rest),
                     [st EXCEPT !.occ[opt] = @ + 1,
                                !.sub = SetValue(@, opt, Head(rest))], envId)
      ELSE IF pos = NoVal THEN Err("UnknownArgument")
      ELSE SubScan(mode, rest,
                   [st EXCEPT !.npos = @ + 1, !.sub = SetValue(@, pos, tok)], envId)

\* mutant: without SubcommandRequiredElseHelp an empty command line parses
ParseArgsNoSubcommandRequired(args, envId) ==
    LET toks == Tail(args) IN
    IF toks = <<>> THEN Ok(NoVal, EmptySub)
    ELSE IF Head(toks) \in HelpTokens THEN Err("HelpDisplayed")
    ELSE IF Head(toks) \in VersionTokens THEN Err("VersionDisplayed")
    ELSE IF Head(toks) \in Dashed THEN Err("UnknownArgument")
    ELSE IF Head(toks) \in Modes THEN SubScan(Head(toks), Tail(toks), StartScan, envId)
    ELSE Err("UnrecognizedSubcommand")

\* get_matches_from_safe(args): args[1] is the program name
ParseArgs(args, envId) ==
    LET toks == Tail(args) IN
    IF toks = <<>> THEN Err("MissingArgumentOrSubcommand")
    ELSE IF Head(toks) \in HelpTokens THEN Err("HelpDisplayed")
    ELSE IF Head(toks) \in VersionTokens THEN Err("VersionDisplayed")
    ELSE IF Head(toks) \in Dashed THEN Err("UnknownArgument")
    ELSE IF Head(toks) \in Modes THEN SubScan(Head(toks), Tail(toks), StartScan, envId)
    ELSE Err("UnrecognizedSubcommand")

\* mutant: "client" is pushed at the end of the vector
InsertClientAtEnd(args) == Append(args, "client")

\* args2.insert(1, "client")
InsertClient(args) == <<Head(args), "client">> \o Tail(args)

(***************************************************************************)
(* The accessors, as functions of the cached ArgMatches.                   *)
(***************************************************************************)
Panic == "<panic>"

\* MATCHES.subcommand_name().unwrap()
mode(m) == IF m.subcommand = NoVal THEN Panic ELSE m.subcommand

\* MATCHES.subcommand_matches(mode()).unwrap()
matches(m) == m.sub

\* mutant: a missing destination gives an empty string instead of a panic
destinationOrEmpty(m) ==
    IF m.sub.destination = NoVal THEN "" ELSE m.sub.destination

\* ...value_of("destination").unwrap()
destination(m) ==
    IF mode(m) = Panic \/ m.sub.destination = NoVal THEN Panic ELSE m.sub.destination

\* mutant: unwrap() in place of unwrap_or("0.0.0.0")
bind_addressUnwrap(m) ==
    IF m.sub.bind = NoVal THEN Panic ELSE m.sub.bind

\* ...value_of("bind-address").unwrap_or("0.0.0.0")
bind_address(m) ==
    IF mode(m) = Panic THEN Panic
    ELSE IF m.sub.bind = NoVal THEN "0.0.0.0" ELSE m.sub.bind

\* mutant: value_of in place of values_of, the first value alone
batched_metacommandsFirst(m) ==
    IF m.sub.metacommand = <<>> THEN <<>> ELSE <<Head(m.sub.metacommand)>>

\* ...values_of("metacommand"), an empty Vec when there is none
batched_metacommands(m) == m.sub.metacommand

\* mutant: the "reverse-server" arm is missing
perspectiveThreeArms(m) ==
    CASE mode(m) = Panic -> Panic
      [] mode(m) = "reexec" -> "Bob"
      [] mode(m) = "server" -> "Bob"
      [] mode(m) = "serve-one" -> "Bob"
      [] OTHER -> "Alice"

\* lines 239-248
perspective(m) ==
    CASE mode(m) = Panic -> Panic
      [] mode(m) = "reexec" -> "Bob"
      [] mode(m) = "server" -> "Bob"
      [] mode(m) = "serve-one" -> "Bob"
      [] mode(m) = "reverse-server" -> "Bob"
      [] OTHER -> "Alice"

\* mutant: two occurrences still give debug
LevelTwoDebug(n) ==
    CASE n = 0 -> "info"
      [] n = 1 -> "debug"
      [] n = 2 -> "debug"
      [] OTHER -> "trace"

\* the level process() derives from occurrences_of("verbose")
Level(n) ==
    CASE n = 0 -> "info"
      [] n = 1 -> "debug"
      [] n = 2 -> "trace"
      [] OTHER -> "trace"

\* the value of a variable that is set to bytes that are not valid Unicode
NotUnicode == "<not-unicode>"

\* mutant: the variable is written whatever it held
VarIsErrAlways(v) == TRUE

\* env::var(name).is_err(): the variable is absent or is not valid Unicode
VarIsErr(v) == v \in {NoVal, NotUnicode}

\* mutant: init() in place of try_init().ok(), a panic once a logger is set
TryInitUnwrapped(lg) == lg # NoVal

\* env_logger::try_init().ok(): the Err of a later call is dropped, no panic
TryInitPanics(lg) == FALSE

\* format!("oxy={}", level)
ScopedLevel(level) ==
    CASE level = "info" -> "oxy=info"
      [] level = "debug" -> "oxy=debug"
      [] OTHER -> "oxy=trace"

(***************************************************************************)
(* The state of one process.                                               *)
(***************************************************************************)
VARIABLES
    argv,      \* ::std::env::args(), fixed at process start
    env,       \* the environment variables RUST_LOG and OXY_IDENTITY
    once,      \* the Once of the lazy static: "uninit", "running", "done"
    MATCHES,   \* the value of the lazy static (NoMatches until it is set)
    pc,        \* per thread: where it is in create_matches, or "idle", ...
    creates,   \* how many times create_matches has been entered
    parsed,    \* the argument vectors handed to the parser so far
    output,    \* what was written to stdout and stderr
    exit,      \* the exit status of the process, Running while it lives
    last,      \* the latest accessor call and what it returned
    firstRet,  \* what the first call of mode/matches/destination returned
    seen,      \* per thread: <<the ArgMatches it read from MATCHES>>
    logger     \* the filter env_logger was initialised with (NoVal: not yet)

vars ==
    <<argv, env, once, MATCHES, pc, creates, parsed, output, exit, last,
      firstRet, seen, logger>>

Threads == 1..NThreads

MainThread == 1

Running == "running"

Tracked == {"mode", "matches", "destination"}

\* a call of fn and what it gave back, with the environment at the call
Ret(fn, str, seq, sub) ==
    [fn |-> fn, str |-> str, seq |-> seq, sub |-> sub, panic |-> str = Panic,
     env |-> env]

NoEnv == [RUST_LOG |-> NoVal, OXY_IDENTITY |-> NoVal]

NoCall ==
    [fn |-> "none", str |-> NoVal, seq |-> <<>>, sub |-> EmptySub, panic |-> FALSE,
     env |-> NoEnv]

InitWith(A) ==
    /\ argv \in A
    /\ env = NoEnv
    /\ once = "uninit"
    /\ MATCHES = NoMatches
    /\ pc = [t \in Threads |-> "idle"]
    /\ creates = 0
    /\ parsed = <<>>
    /\ output = <<>>
    /\ exit = Running
    /\ last = NoCall
    /\ firstRet = [f \in Tracked |-> NoCall]
    /\ seen = [t \in Threads |-> <<>>]
    /\ logger = NoVal

Init == InitWith(StartArgvs)

\* what a call gave back, whatever the environment was
Value(r) == [r EXCEPT !.env = NoEnv]

(***************************************************************************)
(* lazy_static: the first dereference of MATCHES runs create_matches.      *)
(***************************************************************************)
\* mutant: no Once, a caller initialises whenever the value is not yet set
OnceCanStartRacy == once \in {"uninit", "running"}

\* Once::call_once lets a caller run the initialiser only while none has begun
OnceCanStart == once = "uninit"

\* first access of MATCHES by thread t: t enters create_matches
Force(t) ==
    /\ exit = Running /\ pc[t] = "idle"
    /\ OnceCanStart
    /\ once' = "running"
    /\ creates' = creates + 1
    /\ pc' = [pc EXCEPT ![t] = "direct"]
    /\ UNCHANGED <<argv, env, MATCHES, parsed, output, exit, last, firstRet, seen, logger>>

\* access of MATCHES while another thread initialises it: t waits
Block(t) ==
    /\ exit = Running /\ pc[t] = "idle"
    /\ ~OnceCanStart /\ once = "running"
    /\ pc' = [pc EXCEPT ![t] = "blocked"]
    /\ UNCHANGED <<argv, env, once, MATCHES, creates, parsed, output, exit, last,
                   firstRet, seen, logger>>

\* the initialiser has finished: a waiting thread goes on
Wake(t) ==
    /\ exit = Running /\ pc[t] = "blocked"
    /\ once = "done"
    /\ pc' = [pc EXCEPT ![t] = "idle"]
    /\ UNCHANGED <<argv, env, once, MATCHES, creates, parsed, output, exit, last,
                   firstRet, seen, logger>>

(***************************************************************************)
(* create_matches, one action per parse attempt.                           *)
(***************************************************************************)
\* what a parse writes while it runs: clap prints the version when it builds
\* the VersionDisplayed error
ParseOutput(args, r) ==
    IF r.kind = "VersionDisplayed"
    THEN <<[stream |-> "stdout", kind |-> "version", args |-> args]>>
    ELSE <<>>

\* Error::exit: help and version go to stdout with status 0, the rest to stderr
\* with status 1
ExitOutput(args, r) ==
    IF r.kind \in {"HelpDisplayed", "VersionDisplayed"}
    THEN <<[stream |-> "stdout", kind |-> r.kind, args |-> args]>>
    ELSE <<[stream |-> "stderr", kind |-> r.kind, args |-> args]>>

\* mutant: every failure of the exiting parse ends the process with status 0
ExitStatusAlwaysZero(r) == "0"

ExitStatus(r) == IF r.kind \in {"HelpDisplayed", "VersionDisplayed"} THEN "0" ELSE "1"

\* create_matches returns m: the lazy static is set and the Once completes
Return(t, m) ==
    /\ MATCHES' = m
    /\ once' = "done"
    /\ pc' = [pc EXCEPT ![t] = "idle"]

\* get_matches(): the parse that exits the process when it fails
ExitingParse(t) ==
    LET r == ParseArgs(argv, env.OXY_IDENTITY) IN
    /\ parsed' = Append(parsed, argv)
    /\ IF r.ok
       THEN /\ Return(t, r.matches)
            /\ output' = output \o ParseOutput(argv, r)
            /\ UNCHANGED exit
       ELSE /\ output' = output \o ParseOutput(argv, r) \o ExitOutput(argv, r)
            /\ exit' = ExitStatus(r)
            /\ UNCHANGED <<MATCHES, once, pc>>

\* mutant: the implicit client is tried whatever the direct parse gave
AfterDirectAlwaysRetry(basic) ==
    IF ~basic.ok /\ basic.kind = "HelpDisplayed" THEN "help" ELSE "retry"

\* mutant: a failed direct parse is tried again
AfterDirectLoop(basic) ==
    IF basic.ok THEN "return" ELSE "direct"

\* mutant: a help request is a failure like any other
AfterDirectNoHelp(basic) ==
    IF basic.ok THEN "return" ELSE "retry"

\* lines 181-187: what create_matches does with the result of the direct parse
AfterDirect(basic) ==
    IF ~basic.ok /\ basic.kind = "HelpDisplayed" THEN "help"
    ELSE IF basic.ok THEN "return"
    ELSE "retry"

\* lines 180-186: the direct parse, and where it leads
DirectParse(t) ==
    LET basic == ParseArgs(argv, env.OXY_IDENTITY) IN
    /\ exit = Running /\ pc[t] = "direct"
    /\ parsed' = Append(parsed, argv)
    /\ output' = output \o ParseOutput(argv, basic)
    /\ IF AfterDirect(basic) = "return"
       THEN Return(t, basic.matches)
       ELSE /\ pc' = [pc EXCEPT ![t] = AfterDirect(basic)]
            /\ UNCHANGED <<MATCHES, once>>
    /\ UNCHANGED <<argv, env, creates, exit, last, firstRet, seen, logger>>

\* line 182: return create_app().get_matches()
HelpReparse(t) ==
    /\ exit = Running /\ pc[t] = "help"
    /\ ExitingParse(t)
    /\ UNCHANGED <<argv, env, creates, last, firstRet, seen, logger>>

\* mutant: a help request reported by the retry is honoured as a help exit
ImplicitClientShowsHelp(t) ==
    LET args2 == InsertClient(argv)
        r == ParseArgs(args2, env.OXY_IDENTITY)
    IN
    /\ exit = Running /\ pc[t] = "retry"
    /\ parsed' = Append(parsed, args2)
    /\ IF r.ok
       THEN /\ Return(t, r.matches)
            /\ output' = output \o ParseOutput(args2, r)
            /\ UNCHANGED exit
       ELSE IF r.kind = "HelpDisplayed"
       THEN /\ output' = output \o ExitOutput(args2, r)
            /\ exit' = ExitStatus(r)
            /\ UNCHANGED <<MATCHES, once, pc>>
       ELSE /\ pc' = [pc EXCEPT ![t] = "final"]
            /\ output' = output \o ParseOutput(args2, r)
            /\ UNCHANGED <<MATCHES, once, exit>>
    /\ UNCHANGED <<argv, env, creates, last, firstRet, seen, logger>>

\* lines 187-192: the retry with "client" inserted
ImplicitClient(t) ==
    LET args2 == InsertClient(argv)
        r == ParseArgs(args2, env.OXY_IDENTITY)
    IN
    /\ exit = Running /\ pc[t] = "retry"
    /\ parsed' = Append(parsed, args2)
    /\ output' = output \o ParseOutput(args2, r)
    /\ IF r.ok
       THEN Return(t, r.matches)
       ELSE /\ pc' = [pc EXCEPT ![t] = "final"]
            /\ UNCHANGED <<MATCHES, once>>
    /\ UNCHANGED <<argv, env, creates, exit, last, firstRet, seen, logger>>

\* line 193: create_app().get_matches()
FinalParse(t) ==
    /\ exit = Running /\ pc[t] = "final"
    /\ ExitingParse(t)
    /\ UNCHANGED <<argv, env, creates, last, firstRet, seen, logger>>

(***************************************************************************)
(* The accessors and process(), called by a thread once MATCHES is set.    *)
(***************************************************************************)
\* mutant: every access resolves the arguments again
DerefRecomputed ==
    LET basic == ParseArgs(argv, env.OXY_IDENTITY)
        retry == ParseArgs(InsertClient(argv), env.OXY_IDENTITY)
    IN IF basic.ok THEN basic.matches ELSE retry.matches

\* *MATCHES: the value a thread reads through the lazy static
Deref == MATCHES

\* the status of a process whose main thread panicked
PanicExit == "101"

\* thread t calls an accessor that returns (or panics with) r
Call(t, r) ==
    /\ exit = Running /\ pc[t] = "idle"
    /\ once = "done"
    /\ last' = r
    /\ firstRet' = IF r.fn \in Tracked /\ firstRet[r.fn] = NoCall
                   THEN [firstRet EXCEPT ![r.fn] = Value(r)]
                   ELSE firstRet
    /\ seen' = [seen EXCEPT ![t] = <<Deref>>]
    /\ IF r.panic
       THEN /\ pc' = [pc EXCEPT ![t] = "panicked"]
            /\ output' = Append(output, [stream |-> "stderr", kind |-> "panic", args |-> <<r.fn>>])
            /\ exit' = IF t = MainThread THEN PanicExit ELSE exit
       ELSE UNCHANGED <<pc, output, exit>>
    /\ UNCHANGED <<argv, once, MATCHES, creates, parsed>>

CallMode(t) ==
    /\ Call(t, Ret("mode", mode(Deref), <<>>, EmptySub))
    /\ UNCHANGED <<env, logger>>

CallMatches(t) ==
    /\ Call(t, Ret("matches", mode(Deref), <<>>, matches(Deref)))
    /\ UNCHANGED <<env, logger>>

CallDestination(t) ==
    /\ Call(t, Ret("destination", destination(Deref), <<>>, EmptySub))
    /\ UNCHANGED <<env, logger>>

CallBindAddress(t) ==
    /\ Call(t, Ret("bind_address", bind_address(Deref), <<>>, EmptySub))
    /\ UNCHANGED <<env, logger>>

CallBatchedMetacommands(t) ==
    /\ Call(t, Ret("batched_metacommands", mode(Deref), batched_metacommands(Deref), EmptySub))
    /\ UNCHANGED <<env, logger>>

CallPerspective(t) ==
    /\ Call(t, Ret("perspective", perspective(Deref), <<>>, EmptySub))
    /\ UNCHANGED <<env, logger>>

\* lines 204-216, after lazy_static::initialize(&MATCHES) (Force)
process(t) ==
    LET level == Level(matches(Deref).verbose) IN
    /\ Call(t, Ret("process",
                   IF mode(Deref) = Panic \/ TryInitPanics(logger) THEN Panic ELSE level,
                   <<>>, EmptySub))
    /\ env' = IF VarIsErr(env.RUST_LOG)
              THEN [env EXCEPT !.RUST_LOG = ScopedLevel(level)]
              ELSE env
    /\ logger' = IF logger = NoVal THEN env'.RUST_LOG ELSE logger

\* an environment variable is set or removed while the process runs
EnvChange ==
    /\ exit = Running
    /\ \E v \in {[env EXCEPT !.RUST_LOG = x] : x \in {NoVal, "warn"}}
            \cup {[env EXCEPT !.OXY_IDENTITY = x] : x \in {NoVal, "key"}} :
          /\ v # env
          /\ env' = v
    /\ UNCHANGED <<argv, once, MATCHES, pc, creates, parsed, output, exit, last,
                   firstRet, seen, logger>>

(***************************************************************************)
(* Specifications.                                                         *)
(***************************************************************************)
Step(t) ==
    \/ Force(t)
    \/ DirectParse(t)
    \/ HelpReparse(t)
    \/ ImplicitClient(t)
    \/ FinalParse(t)
    \/ CallMode(t)
    \/ CallMatches(t)
    \/ CallDestination(t)
    \/ CallBindAddress(t)
    \/ CallBatchedMetacommands(t)
    \/ CallPerspective(t)
    \/ process(t)

\* one thread, every argument vector of the bounds
Next == Step(MainThread)

Spec == Init /\ [][Next]_vars

\* create_matches is straight-line code: the thread in it takes its next step
Resolve(t) == DirectParse(t) \/ HelpReparse(t) \/ ImplicitClient(t) \/ FinalParse(t)

SpecFair == Init /\ [][Next]_vars /\ WF_vars(Resolve(MainThread))

\* several threads and a changing environment, on chosen argument vectors
ConcArgvs ==
    {<<"oxy", "somehost">>, <<"oxy", "client", "somehost", "-v">>,
     <<"oxy", "server">>, <<"oxy", "serve-one", "0.0.0.0">>,
     <<"oxy", "reexec">>, <<"oxy", "--help">>,
     <<"oxy", "--version">>, <<"oxy">>}

InitConc == InitWith(ConcArgvs)

NextConc ==
    \/ \E t \in Threads : Step(t) \/ Block(t) \/ Wake(t)
    \/ EnvChange

SpecConc == InitConc /\ [][NextConc]_vars

\* one thread, started with RUST_LOG absent, set, or set to invalid Unicode
EnvArgvs == VerboseArgvs \cup {<<"oxy", "--help">>, <<"oxy">>}

StartEnvs == {[NoEnv EXCEPT !.RUST_LOG = x] : x \in {NoVal, "warn", NotUnicode}}

InitEnv ==
    /\ argv \in EnvArgvs
    /\ env \in StartEnvs
    /\ once = "uninit"
    /\ MATCHES = NoMatches
    /\ pc = [t \in Threads |-> "idle"]
    /\ creates = 0
    /\ parsed = <<>>
    /\ output = <<>>
    /\ exit = Running
    /\ last = NoCall
    /\ firstRet = [f \in Tracked |-> NoCall]
    /\ seen = [t \in Threads |-> <<>>]
    /\ logger = NoVal

SpecEnv == InitEnv /\ [][Next]_vars

(***************************************************************************)
(* Properties.                                                             *)
(***************************************************************************)
\* the direct parse of the process's argument vector
Direct == ParseArgs(argv, env.OXY_IDENTITY)

\* the argument vector with "client" at position 1 and the rest as it was
WithClient == <<argv[1], "client">> \o SubSeq(argv, 2, Len(argv))

Retry == ParseArgs(WithClient, env.OXY_IDENTITY)

ParseExits == {"0", "1"}

\* C1: when the direct parse fails for a reason other than help and the
\* vector with "client" inserted at position 1 parses, resolution returns the
\* parse of that vector, in mode client, and the process does not exit;
\* ["oxy","somehost"] gives mode client and destination "somehost".
ImplicitClientEquivalence ==
    (~Direct.ok /\ Direct.kind # "HelpDisplayed" /\ Retry.ok) =>
        /\ exit \notin ParseExits
        /\ pc[MainThread] \notin {"help", "final"}
        /\ once = "done" => (MATCHES = Retry.matches /\ MATCHES.subcommand = "client")
        /\ last.fn = "mode" => last.str = "client"
        /\ (argv = <<"oxy", "somehost">> /\ last.fn = "destination")
              => last.str = "somehost"

ImplicitClientWitness ==
    /\ argv = <<"oxy", "somehost">>
    /\ once = "done"
    /\ MATCHES = ParseArgs(<<"oxy", "client", "somehost">>, NoVal).matches
    /\ last.fn = "destination" /\ last.str = "somehost"

\* C2: when the direct parse succeeds, resolution returns it unchanged, mode()
\* is the mode named on the command line, and no vector other than the
\* original one is ever parsed.
HeuristicOnlyOnFailure ==
    Direct.ok =>
        /\ \A i \in DOMAIN parsed : parsed[i] = argv
        /\ Len(parsed) <= 1
        /\ exit \notin ParseExits
        /\ once = "done" => (MATCHES = Direct.matches /\ MATCHES.subcommand = argv[2])
        /\ last.fn = "mode" => last.str = argv[2]

HeuristicOnlyOnFailureWitness ==
    /\ Direct.ok /\ argv[2] = "reexec"
    /\ parsed = <<argv>>
    /\ last.fn = "mode" /\ last.str = "reexec"

\* C3: ["oxy","client"] never resolves: the cache is never set for it.
ClientWithoutDestinationFails ==
    argv = <<"oxy", "client">> => (once # "done" /\ MATCHES = NoMatches)

\* C4: a vector that names a mode other than client and whose direct parse
\* fails never resolves to mode client.
ExplicitModeNotRescued ==
    (Len(argv) >= 2 /\ argv[2] \in Modes \ {"client"} /\ ~Direct.ok) =>
        ~(once = "done" /\ MATCHES.subcommand = "client")

\* C5: whatever the interleaving of the threads' first accesses,
\* create_matches is entered once, by one thread, and every thread that has
\* read the cache has read the one resolved value.
OneTimeInitialization ==
    /\ creates <= 1
    /\ once = "done" => creates = 1
    /\ Cardinality({t \in Threads : pc[t] \in {"direct", "help", "retry", "final"}}) <= 1
    /\ \A t \in Threads :
          seen[t] # <<>> =>
              /\ once = "done"
              /\ seen[t][1] = MATCHES
              /\ seen[t][1] # NoMatches

OneTimeInitializationWitness ==
    /\ creates = 1
    /\ \E t, u \in Threads : t # u /\ seen[t] # <<>> /\ seen[u] # <<>>

\* C6: every call of mode(), matches() and destination() returns what the
\* first call of it returned, whatever the accessor calls and the changes of
\* the environment in between.
CacheStability ==
    \A f \in Tracked :
        /\ firstRet[f] # NoCall => once = "done"
        /\ last.fn = f => Value(last) = firstRet[f]

CacheStabilityWitness ==
    /\ last.fn = "matches"
    /\ last.env.OXY_IDENTITY = "key" /\ last.sub.identity = NoVal
    /\ last.env.RUST_LOG = "oxy=debug"
    /\ firstRet["mode"] # NoCall /\ firstRet["destination"] # NoCall

\* the destination typed on the command line: the word after the mode, or the
\* first word when the mode is implicit
TypedDestination == IF Direct.ok THEN argv[3] ELSE argv[2]

\* C7 as stated: in modes client, reverse-server and reverse-client
\* destination() returns the typed destination and does not abort.
DestinationDefinedInThreeModes ==
    (last.fn = "destination"
        /\ MATCHES.subcommand \in {"client", "reverse-server", "reverse-client"}) =>
        (~last.panic /\ last.str = TypedDestination)

\* C7 as amended: in modes client and reverse-server destination() returns the
\* typed destination and does not abort; in mode reverse-client it aborts.
DestinationDefinedForClientAndReverseServer ==
    /\ (last.fn = "destination" /\ MATCHES.subcommand \in {"client", "reverse-server"}) =>
          (~last.panic /\ last.str = TypedDestination /\ exit = Running)
    /\ (last.fn = "destination" /\ MATCHES.subcommand = "reverse-client") => last.panic

DestinationDefinedWitness ==
    /\ last.fn = "destination"
    /\ MATCHES.subcommand = "reverse-server"
    /\ last.str = "somehost"

\* C8: in every mode other than client, reverse-server and reverse-client a
\* call of destination() panics and returns no string.
DestinationFailsFastElsewhere ==
    (last.fn = "destination"
        /\ MATCHES.subcommand \notin {"client", "reverse-server", "reverse-client"}) =>
        /\ last.panic /\ last.str = Panic
        /\ pc[MainThread] = "panicked"
        /\ exit = PanicExit

DestinationFailsFastWitness ==
    /\ last.fn = "destination"
    /\ MATCHES.subcommand = "server"
    /\ last.panic /\ exit = PanicExit

\* the bind address typed after the mode, or the default of the schema
TypedBindAddress ==
    IF Len(argv) >= 3 /\ argv[3] \in PosWords THEN argv[3] ELSE "::0"

\* C9: bind_address() never aborts; in modes serve-one and reverse-client it
\* returns the typed bind address, or "::0" when none was typed, and in every
\* other mode "0.0.0.0".
BindAddressTotal ==
    last.fn = "bind_address" =>
        /\ ~last.panic /\ exit = Running
        /\ last.str = IF MATCHES.subcommand \in {"serve-one", "reverse-client"}
                      THEN TypedBindAddress
                      ELSE "0.0.0.0"

BindAddressWitness ==
    /\ last.fn = "bind_address"
    /\ MATCHES.subcommand = "serve-one"
    /\ Len(argv) = 2
    /\ last.str = "::0"

\* C10: perspective() is Bob (responder) exactly in modes reexec, server,
\* serve-one and reverse-server, and Alice (initiator) in the five others.
PerspectiveByMode ==
    last.fn = "perspective" =>
        /\ MATCHES.subcommand \in {"reexec", "server", "serve-one", "reverse-server"}
              => last.str = "Bob"
        /\ MATCHES.subcommand \in {"client", "reverse-client", "copy", "guide", "keygen"}
              => last.str = "Alice"
        /\ MATCHES.subcommand \in Modes

PerspectiveWitness ==
    /\ last.fn = "perspective"
    /\ MATCHES.subcommand = "reverse-server"
    /\ last.str = "Bob"

\* the values typed after flag in toks, left to right
RECURSIVE ValuesAfter(_, _)
ValuesAfter(toks, flag) ==
    IF Len(toks) < 2 THEN <<>>
    ELSE IF Head(toks) = flag
    THEN <<toks[2]>> \o ValuesAfter(Tail(Tail(toks)), flag)
    ELSE ValuesAfter(Tail(toks), flag)

\* C11: batched_metacommands() never aborts and returns the values typed
\* after -m, in command-line order with duplicates kept; it returns the empty
\* sequence when there is none, also in modes without a metacommand argument.
MetacommandsInOrder ==
    last.fn = "batched_metacommands" =>
        /\ ~last.panic /\ exit = Running
        /\ last.seq = ValuesAfter(argv, "-m")
        /\ ~HasArg(MATCHES.subcommand, "metacommand") => last.seq = <<>>

MetacommandsWitness ==
    /\ last.fn = "batched_metacommands"
    /\ argv = <<"oxy", "somehost", "-m", "a", "-m", "b", "-m", "c">>
    /\ last.seq = <<"a", "b", "c">>

\* C12: when the direct parse fails because help was requested, the vector
\* with "client" inserted is never parsed; the original vector is parsed again
\* by the exiting parse, which writes the help text to standard output and
\* ends the process with status 0; the cache is never set and no accessor runs.
HelpBypassesHeuristic ==
    (~Direct.ok /\ Direct.kind = "HelpDisplayed") =>
        /\ \A i \in DOMAIN parsed : parsed[i] = argv
        /\ Len(parsed) <= 2
        /\ pc[MainThread] \notin {"retry", "final"}
        /\ once # "done" /\ MATCHES = NoMatches /\ last = NoCall
        /\ exit \in {Running, "0"}
        /\ Len(parsed) = 1 => (pc[MainThread] = "help" /\ output = <<>> /\ exit = Running)
        /\ Len(parsed) = 2 =>
              /\ exit = "0"
              /\ output = <<[stream |-> "stdout", kind |-> "HelpDisplayed", args |-> argv]>>

HelpBypassesHeuristicWitness ==
    /\ argv = <<"oxy", "client", "--help">>
    /\ parsed = <<argv, argv>>
    /\ exit = "0"
    /\ output = <<[stream |-> "stdout", kind |-> "HelpDisplayed", args |-> argv]>>

\* C13 as stated: once the final parse has run, the process has ended with a
\* non-zero status and its last output went to standard error, whatever made
\* the direct parse fail.
TerminalFailureExitsNonZero ==
    Len(parsed) = 3 =>
        /\ exit = "1"
        /\ output # <<>> /\ output[Len(output)].stream = "stderr"

\* C13, amended: once the final parse has run, the process has ended; for a
\* version request its last output went to standard output and the status is
\* 0, for every other cause its last output is the error of the original
\* vector on standard error and the status is 1.
TerminalFailureExit ==
    /\ pc[MainThread] = "final" => (~Direct.ok /\ ~Retry.ok)
    /\ Len(parsed) = 3 =>
          /\ ~Direct.ok /\ ~Retry.ok
          /\ parsed[3] = argv
          /\ once # "done" /\ last = NoCall
          /\ IF Direct.kind = "VersionDisplayed"
             THEN /\ exit = "0"
                  /\ output[Len(output)] =
                        [stream |-> "stdout", kind |-> "VersionDisplayed", args |-> argv]
             ELSE /\ exit = "1"
                  /\ output[Len(output)] =
                        [stream |-> "stderr", kind |-> Direct.kind, args |-> argv]

TerminalFailureExitWitness ==
    /\ argv = <<"oxy">>
    /\ Len(parsed) = 3
    /\ exit = "1"
    /\ output = <<[stream |-> "stderr", kind |-> "MissingArgumentOrSubcommand",
                   args |-> argv]>>

\* C14: whenever an accessor has run, the cache is resolved and holds one of
\* the nine modes with that mode's matches; mode() and matches() never abort;
\* when resolution ends the process the cache is never set and no accessor
\* has run.
NonEmptyMode ==
    /\ once = "done" =>
          /\ MATCHES # NoMatches
          /\ MATCHES.subcommand \in Modes
          /\ MATCHES \in {Direct.matches, Retry.matches}
    /\ last # NoCall => once = "done"
    /\ last.fn \in {"mode", "matches"} =>
          /\ ~last.panic
          /\ last.str = MATCHES.subcommand
          /\ exit = Running
    /\ last.fn = "matches" => last.sub = MATCHES.sub
    /\ exit \in ParseExits => (once # "done" /\ MATCHES = NoMatches /\ last = NoCall)
    /\ (~Direct.ok /\ ~Retry.ok) => (once # "done" /\ last = NoCall)

NonEmptyModeWitness ==
    /\ last.fn = "matches" /\ ~last.panic
    /\ last.str = "keygen" /\ last.sub = MATCHES.sub
    /\ Cardinality({ParseArgs(<<"oxy", m>>, NoVal).ok : m \in Modes}) = 2

\* how many times the verbosity flag was typed
TypedVerbosity == Cardinality({i \in DOMAIN argv : argv[i] = "-v"})

\* C15: process() never aborts and derives the level from the number of
\* verbosity flags of the resolved mode's matches: none gives info, one gives
\* debug, two give trace, three or more give trace.
VerbosityMapping ==
    last.fn = "process" =>
        /\ ~last.panic /\ exit = Running
        /\ MATCHES.sub.verbose = TypedVerbosity
        /\ last.str = IF MATCHES.sub.verbose = 0 THEN "info"
                      ELSE IF MATCHES.sub.verbose = 1 THEN "debug"
                      ELSE "trace"

VerbosityMappingWitness ==
    /\ last.fn = "process"
    /\ MATCHES.sub.verbose >= 3
    /\ last.str = "trace"
    /\ Level(0) = "info" /\ Level(1) = "debug" /\ Level(2) = "trace"

\* C16: while the direct parse and the retry have failed and the final parse
\* has not run, nothing was written and the process lives; once the final
\* parse has run, the one thing written is the diagnostic of the original
\* vector.
OnlyFinalAttemptVisible ==
    /\ (pc[MainThread] \in {"retry", "final"} /\ Len(parsed) <= 2) =>
          (output = <<>> /\ exit = Running)
    /\ Len(parsed) = 3 =>
          /\ Len(output) = 1
          /\ output[1].args = argv

\* a step in which process() ran
ProcessStep == env' # env \/ (last' # last /\ last'.fn = "process")

\* C17 as stated: a step changes RUST_LOG only when it was absent, and then
\* process() writes "oxy=<level>".
RustLogPreserved ==
    [][/\ env.RUST_LOG # NoVal => env'.RUST_LOG = env.RUST_LOG
       /\ ProcessStep =>
             (env.RUST_LOG = NoVal => env'.RUST_LOG = ScopedLevel(last'.str))]_vars

\* C17, amended: process() leaves RUST_LOG unchanged, whatever the verbosity
\* count, when it holds a valid Unicode value; it writes "oxy=<level>" when
\* the variable is absent and also when its value is not valid Unicode.
RustLogPreservedWhenUnicode ==
    [][ProcessStep =>
          /\ last'.fn = "process" /\ ~last'.panic
          /\ IF env.RUST_LOG \notin {NoVal, NotUnicode}
             THEN env' = env
             ELSE env' = [env EXCEPT !.RUST_LOG = ScopedLevel(last'.str)]]_vars

RustLogPreservedWitness ==
    /\ last.fn = "process"
    /\ last.env.RUST_LOG = "warn" /\ env.RUST_LOG = "warn"
    /\ MATCHES.sub.verbose = 2 /\ last.str = "trace"

\* C18: once a call of process() has initialised the logger, no later step
\* changes RUST_LOG or the logger's filter, and no call of process() aborts.
LoggingBootstrapIdempotent ==
    [][/\ logger # NoVal => (logger' = logger /\ env' = env)
       /\ (last' # last /\ last'.fn = "process") =>
             /\ ~last'.panic /\ exit' = Running
             /\ logger' = env'.RUST_LOG
             /\ logger' \notin {NoVal, NotUnicode}]_vars

LoggingBootstrapWitness ==
    /\ last.fn = "process"
    /\ last.env.RUST_LOG = "oxy=debug"
    /\ env.RUST_LOG = "oxy=debug" /\ logger = "oxy=debug"
    /\ ~last.panic /\ exit = Running

\* the parse attempts create_matches may have made so far
ParseAttempts ==
    {<<>>, <<argv>>, <<argv, argv>>, <<argv, WithClient>>, <<argv, WithClient, argv>>}

\* C19: create_matches makes at most three parse attempts, in one of the two
\* orders (direct, client-inserted, final; direct, help re-parse); once entered
\* it ends, by setting the cache or by exiting the process; when it exits the
\* cache is never set and nothing runs after it.
ResolutionTerminates ==
    /\ [](/\ Len(parsed) <= 3
          /\ parsed \in ParseAttempts
          /\ creates <= 1
          /\ once = "done" =>
                (pc[MainThread] \in {"idle", "panicked"} /\ exit \notin ParseExits)
          /\ exit \in ParseExits =>
                /\ once = "running" /\ MATCHES = NoMatches /\ last = NoCall
                /\ pc[MainThread] \in {"help", "final"}
                /\ parsed \in {<<argv, argv>>, <<argv, WithClient, argv>>})
    /\ (once = "running") ~> (once = "done" \/ exit \in ParseExits)

ResolutionTerminatesWitness ==
    /\ argv = <<"oxy", "--bogus">>
    /\ parsed = <<argv, WithClient, argv>>
    /\ once = "running" /\ exit = "1"

\* C20: when the direct parse fails for a reason other than help and the
\* parse of the vector with "client" inserted reports a help request, no help
\* is written and the process does not end with status 0: the final parse of
\* the original vector writes that vector's error to standard error and ends
\* the process with status 1; the cache is never set.
RetryHelpIsPlainFailure ==
    (~Direct.ok /\ Direct.kind # "HelpDisplayed"
        /\ ~Retry.ok /\ Retry.kind = "HelpDisplayed") =>
        /\ once # "done" /\ MATCHES = NoMatches /\ last = NoCall
        /\ pc[MainThread] # "help"
        /\ exit \in {Running, "1"}
        /\ \A i \in DOMAIN output :
              output[i].kind # "HelpDisplayed" /\ output[i].args = argv
        /\ Len(parsed) = 2 =>
              (pc[MainThread] = "final" /\ output = <<>> /\ exit = Running)
        /\ Len(parsed) = 3 =>
              /\ parsed[2] = WithClient /\ parsed[3] = argv
              /\ exit = "1"
              /\ output = <<[stream |-> "stderr", kind |-> Direct.kind, args |-> argv]>>

RetryHelpWitness ==
    /\ argv = <<"oxy", "somehost", "--help">>
    /\ Retry.kind = "HelpDisplayed"
    /\ Len(parsed) = 3 /\ exit = "1"
    /\ output = <<[stream |-> "stderr", kind |-> "UnrecognizedSubcommand",
                   args |-> argv]>>

====
